---- MODULE Spec2Model ----
(***************************************************************************)
(* Model of the Stooq quote fetcher (Node CLI): the parser of              *)
(* src/stooq/parse.js, the rendered fetcher (playwright), the document    *)
(* fetcher (http) and the orchestrator of bin/stooq-quote.js (mapLimit,   *)
(* parseSymbols, fetchOne, main).                                          *)
(*                                                                         *)
(* Text is a sequence of one-character strings.  A JavaScript value is a  *)
(* tagged record: Null, Undefined, Str(text), Num(m, e) (the number       *)
(* m * 10^e).  A document is the sequence of its elements that carry an   *)
(* id, in document order: [id |-> <<sym, code>>, text |-> text].          *)
(***************************************************************************)
EXTENDS Integers, Sequences, FiniteSets, TLC

\* ------------------------------------------------------------------ bounds
\* The largest value of --concurrency that is tried.
MaxConcurrency == 2
\* The largest number of --symbol occurrences on the command line.
MaxSymbolArgs == 1

\* ------------------------------------------------------------ JS values
Null == [t |-> "null"]
Undefined == [t |-> "undefined"]
Str(s) == [t |-> "str", v |-> s]
Num(m, e) == [t |-> "num", m |-> m, e |-> e]

\* x == null of JavaScript: true of null and of undefined.
IsNullish(v) == v.t \in {"null", "undefined"}

\* Truthiness of a value (text "" is falsy, every number of the model that
\* reaches a truthiness test is a text).
Truthy(v) == /\ ~IsNullish(v)
             /\ (v.t = "str" => v.v # <<>>)

\* ------------------------------------------------------------------ text
IsSpace(c) == c = " "

RECURSIVE TrimLeft(_)
TrimLeft(s) == IF s # <<>> /\ IsSpace(Head(s)) THEN TrimLeft(Tail(s)) ELSE s

RECURSIVE TrimRight(_)
TrimRight(s) ==
  IF s # <<>> /\ IsSpace(s[Len(s)]) THEN TrimRight(SubSeq(s, 1, Len(s) - 1)) ELSE s

\* String.prototype.trim
Trim(s) == TrimRight(TrimLeft(s))

LowerChar(c) ==
  CASE c = "A" -> "a"
    [] c = "B" -> "b"
    [] c = "C" -> "c"
    [] c = "K" -> "k"
    [] c = "M" -> "m"
    [] c = "G" -> "g"
    [] OTHER -> c

\* String.prototype.toLowerCase
ToLowerCase(s) == [k \in 1..Len(s) |-> LowerChar(s[k])]

\* String.prototype.split(","): the pieces between the commas (one piece,
\* the empty text, for the empty text).
RECURSIVE SplitComma(_, _)
SplitComma(s, cur) ==
  IF s = <<>> THEN <<cur>>
  ELSE IF Head(s) = "," THEN <<cur>> \o SplitComma(Tail(s), <<>>)
  ELSE SplitComma(Tail(s), Append(cur, Head(s)))

RECURSIVE FilterNonEmpty(_)
FilterNonEmpty(ss) ==
  IF ss = <<>> THEN <<>>
  ELSE IF Head(ss) = <<>> THEN FilterNonEmpty(Tail(ss))
  ELSE <<Head(ss)>> \o FilterNonEmpty(Tail(ss))

\* [...new Set(xs)]: the first occurrence of every element, in order.
RECURSIVE Uniq(_, _)
Uniq(ss, seen) ==
  IF ss = <<>> THEN <<>>
  ELSE IF Head(ss) \in seen THEN Uniq(Tail(ss), seen)
  ELSE <<Head(ss)>> \o Uniq(Tail(ss), seen \cup {Head(ss)})

\* --------------------------------------------------------------- numbers
NaN == [t |-> "nan"]

IsDigit(c) == c \in {"0", "1", "2", "3", "4", "5", "6", "7", "8", "9"}

DigitVal(c) ==
  CASE c = "0" -> 0 [] c = "1" -> 1 [] c = "2" -> 2 [] c = "3" -> 3
    [] c = "4" -> 4 [] c = "5" -> 5 [] c = "6" -> 6 [] c = "7" -> 7
    [] c = "8" -> 8 [] c = "9" -> 9

AllDigits(s) == \A k \in 1..Len(s) : IsDigit(s[k])

RECURSIVE DigitsValue(_)
DigitsValue(s) ==
  IF s = <<>> THEN 0
  ELSE 10 * DigitsValue(SubSeq(s, 1, Len(s) - 1)) + DigitVal(s[Len(s)])

HasSign(s) == s # <<>> /\ Head(s) \in {"+", "-"}
StripSign(s) == IF HasSign(s) THEN Tail(s) ELSE s
SignOf(s) == IF s # <<>> /\ Head(s) = "-" THEN -1 ELSE 1
DotPositions(s) == {k \in 1..Len(s) : s[k] = "."}

\* Number(text) of JavaScript on texts over digits, sign, ".", and characters
\* that belong to no numeric literal: the empty (or blank) text is 0, a decimal
\* literal is its value, everything else is NaN.
JsNumber(s) ==
  LET t == Trim(s)
      u == StripSign(t)
      dots == DotPositions(u)
  IN  IF t = <<>> THEN Num(0, 0)
      ELSE IF dots = {} THEN
        IF u # <<>> /\ AllDigits(u) THEN Num(SignOf(t) * DigitsValue(u), 0) ELSE NaN
      ELSE IF Cardinality(dots) = 1 THEN
        LET p == CHOOSE k \in dots : TRUE
            int == SubSeq(u, 1, p - 1)
            frac == SubSeq(u, p + 1, Len(u))
        IN  IF AllDigits(int) /\ AllDigits(frac) /\ (int # <<>> \/ frac # <<>>)
            THEN Num(SignOf(t) * DigitsValue(int \o frac), 0 - Len(frac))
            ELSE NaN
      ELSE NaN

\* /^([+-]?\d+(?:\.\d+)?)([kKmMgGbB])$/ matches the whole of t.
KmMatches(t) ==
  /\ Len(t) >= 2
  /\ t[Len(t)] \in {"k", "K", "m", "M", "g", "G", "b", "B"}
  /\ LET u == StripSign(SubSeq(t, 1, Len(t) - 1))
         dots == DotPositions(u)
     IN  \/ dots = {} /\ u # <<>> /\ AllDigits(u)
         \/ /\ Cardinality(dots) = 1
            /\ LET p == CHOOSE k \in dots : TRUE
               IN  /\ p > 1 /\ p < Len(u)
                   /\ AllDigits(SubSeq(u, 1, p - 1))
                   /\ AllDigits(SubSeq(u, p + 1, Len(u)))

\* The decimal exponent of the unit suffix: k = 1e3, m = 1e6, else 1e9.
UnitExponent(c) ==
  LET unit == LowerChar(c)
  IN  IF unit = "k" THEN 3 ELSE IF unit = "m" THEN 6 ELSE 9

\* t.replace(/[,\s]/g, "")
RECURSIVE StripCommasAndSpace(_)
StripCommasAndSpace(t) ==
  IF t = <<>> THEN <<>>
  ELSE IF Head(t) = "," \/ IsSpace(Head(t)) THEN StripCommasAndSpace(Tail(t))
  ELSE <<Head(t)>> \o StripCommasAndSpace(Tail(t))

parseNumberLoose(s) ==
  IF IsNullish(s) THEN Null
  ELSE LET t == Trim(s.v)
       IN  IF t = <<>> THEN Null
           ELSE IF KmMatches(t) THEN
             LET n == JsNumber(SubSeq(t, 1, Len(t) - 1))
             IN  IF n.t = "num" THEN Num(n.m, n.e + UnitExponent(t[Len(t)])) ELSE Null
           ELSE LET n == JsNumber(StripCommasAndSpace(t))
                IN  IF n.t = "num" THEN n ELSE Null

parsePctLoose(s) ==
  IF IsNullish(s) THEN Null
  ELSE LET t0 == Trim(s.v)
           t1 == IF t0 # <<>> /\ Head(t0) = "(" /\ t0[Len(t0)] = ")"
                 THEN SubSeq(t0, 2, Len(t0) - 1) ELSE t0
           t2 == IF t1 # <<>> /\ t1[Len(t1)] = "%"
                 THEN SubSeq(t1, 1, Len(t1) - 1) ELSE t1
       IN  IF t0 = <<>> THEN Null ELSE parseNumberLoose(Str(t2))

\* ------------------------------------------------------------- documents
\* `aq_${sym}_${code}`
ElementId(sym, code) == <<"a", "q", "_">> \o sym \o <<"_">> \o code

\* The candidates in ascending order.
lastIdDigitsAscending == <<"0", "1", "2", "3", "4", "5", "6", "7", "8", "9">>

\* [2, 0, 3, 1, 4, 5, 6, 7, 8, 9] of parseQuoteHtml
lastIdDigits == <<"2", "0", "3", "1", "4", "5", "6", "7", "8", "9">>

\* `aq_${sym}_c${d}|3` for every digit of the list, in the list's order.
lastIdCandidates(sym) ==
  [k \in 1..Len(lastIdDigits) |-> ElementId(sym, <<"c", lastIdDigits[k], "|", "3">>)]

\* [2, 0, 3, 1, 4, 5, 6, 7, 8, 9] of the function evaluated in the page
lastDigits == <<"2", "0", "3", "1", "4", "5", "6", "7", "8", "9">>

lastCandidates(sym) ==
  [k \in 1..Len(lastDigits) |-> ElementId(sym, <<"c", lastDigits[k], "|", "3">>)]

\* The fields read by a fixed id, in the order of the ids object.
FieldNames ==
  <<"date", "time", "change", "change_pct", "high", "low", "open", "prev",
    "volume", "turnover">>

FieldCode(k) ==
  CASE k = "date" -> <<"d", "2">>
    [] k = "time" -> <<"t", "1">>
    [] k = "change" -> <<"m", "2">>
    [] k = "change_pct" -> <<"m", "3">>
    [] k = "high" -> <<"h">>
    [] k = "low" -> <<"l">>
    [] k = "open" -> <<"o">>
    [] k = "prev" -> <<"p">>
    [] k = "volume" -> <<"v", "2">>
    [] k = "turnover" -> <<"r", "2">>

\* The regular expression of extractTextById finds the id at the start of
\* the attribute value, ignoring case (flags "ig"), followed by anything up
\* to the end of the tag.
RegexIdMatches(attr, id) ==
  /\ Len(attr) >= Len(id)
  /\ ToLowerCase(SubSeq(attr, 1, Len(id))) = ToLowerCase(id)

\* The text of the last element whose id matches, trimmed; null if none.
extractTextById(html, id) ==
  LET hits == {k \in 1..Len(html) : RegexIdMatches(html[k].id, id)}
  IN  IF hits = {} THEN Null
      ELSE LET last == CHOOSE k \in hits : \A j \in hits : j <= k
           IN  Str(Trim(html[last].text))

\* document.getElementById: the first element with exactly this id.
getElementById(dom, id) ==
  LET hits == {k \in 1..Len(dom) : dom[k].id = id}
  IN  IF hits = {} THEN Null
      ELSE LET first == CHOOSE k \in hits : \A j \in hits : k <= j
           IN  [t |-> "element", textContent |-> dom[first].text]

\* ---------------------------------------------------------------- parser
\* The loop of parseQuoteHtml over lastIdCandidates, from candidate k on:
\* the first candidate whose extraction is not null, with its text.
RECURSIVE lastIdLoop(_, _, _)
lastIdLoop(html, ids, k) ==
  IF k > Len(ids) THEN [lastId |-> Null, lastRaw |-> Null]
  ELSE LET v == extractTextById(html, ids[k])
       IN  IF ~IsNullish(v) THEN [lastId |-> Str(ids[k]), lastRaw |-> v]
           ELSE lastIdLoop(html, ids, k + 1)

\* a || null
OrNull(v) == IF Truthy(v) THEN v ELSE Null

\* raw.date && raw.time ? `${raw.date} ${raw.time}` : null
UpdatedAt(date, time) ==
  IF Truthy(date) /\ Truthy(time) THEN Str(date.v \o <<" ">> \o time.v) ELSE Null

FieldSet == {FieldNames[k] : k \in 1..Len(FieldNames)}

parseQuoteHtml(html, symbol) ==
  LET sym == ToLowerCase(symbol)
      found == lastIdLoop(html, lastIdCandidates(sym), 1)
      raw == [k \in FieldSet \cup {"last", "last_id"} |->
                IF k = "last" THEN found.lastRaw
                ELSE IF k = "last_id" THEN found.lastId
                ELSE extractTextById(html, ElementId(sym, FieldCode(k)))]
  IN  [symbol |-> sym,
       last |-> parseNumberLoose(raw.last),
       date |-> OrNull(raw.date),
       time |-> OrNull(raw.time),
       updated_at |-> UpdatedAt(raw.date, raw.time),
       change |-> parseNumberLoose(raw.change),
       change_pct |-> parsePctLoose(raw.change_pct),
       high |-> parseNumberLoose(raw.high),
       low |-> parseNumberLoose(raw.low),
       open |-> parseNumberLoose(raw.open),
       prev |-> parseNumberLoose(raw.prev),
       volume |-> parseNumberLoose(raw.volume),
       turnover |-> parseNumberLoose(raw.turnover),
       raw |-> raw]

\* A required list that leaves out high.
requiredWithoutHigh ==
  <<"last", "date", "time", "change", "change_pct", "low", "open", "prev">>

\* const required = [...]
required ==
  <<"last", "date", "time", "change", "change_pct", "high", "low", "open", "prev">>

\* The loop of validateParsedQuote from required[k] on.
RECURSIVE validateLoop(_, _, _)
validateLoop(q, req, k) ==
  IF k > Len(req) THEN TRUE
  ELSE IF IsNullish(q[req[k]]) THEN FALSE
  ELSE validateLoop(q, req, k + 1)

\* A validator that accepts every record, as a fetchOne that returned what it
\* parsed without the validation would.
validateEverything(q) == TRUE

validateParsedQuote(q) == validateLoop(q, required, 1)

\* ------------------------------------------------------ rendered fetcher
\* (el.textContent || "").trim()
ElementText(el) == Str(Trim(el.textContent))

\* The loop over lastCandidates of the function evaluated in the page.
RECURSIVE lastLoop(_, _, _)
lastLoop(dom, ids, k) ==
  IF k > Len(ids) THEN [last_id |-> Null, last |-> Null]
  ELSE LET el == getElementById(dom, ids[k])
       IN  IF ~IsNullish(el) THEN [last_id |-> Str(ids[k]), last |-> ElementText(el)]
           ELSE lastLoop(dom, ids, k + 1)

\* The function page.evaluate runs in the page: the raw texts read from the DOM.
pageEvaluate(dom, s) ==
  LET sym == ToLowerCase(s)
      found == lastLoop(dom, lastCandidates(sym), 1)
  IN  [k \in FieldSet \cup {"last", "last_id"} |->
         IF k = "last" THEN found.last
         ELSE IF k = "last_id" THEN found.last_id
         ELSE LET el == getElementById(dom, ElementId(sym, FieldCode(k)))
              IN  IF ~IsNullish(el) THEN ElementText(el) ELSE Null]

\* a ?? null
Coalesce(v) == IF IsNullish(v) THEN Null ELSE v

buildQuoteFromPlaywrightRaw(symbol, r) ==
  [symbol |-> ToLowerCase(symbol),
   last |-> parseNumberLoose(r.last),
   date |-> OrNull(r.date),
   time |-> OrNull(r.time),
   updated_at |-> UpdatedAt(r.date, r.time),
   change |-> parseNumberLoose(r.change),
   change_pct |-> parsePctLoose(r.change_pct),
   high |-> parseNumberLoose(r.high),
   low |-> parseNumberLoose(r.low),
   open |-> parseNumberLoose(r.open),
   prev |-> parseNumberLoose(r.prev),
   volume |-> parseNumberLoose(r.volume),
   turnover |-> parseNumberLoose(r.turnover),
   raw |-> [k \in FieldSet \cup {"last"} |-> Coalesce(r[k])]]

\* ------------------------------------------------------------- symbols
RECURSIVE MapTrim(_)
MapTrim(ss) == IF ss = <<>> THEN <<>> ELSE <<Trim(Head(ss))>> \o MapTrim(Tail(ss))

\* The symbols of the run, or <<>> where parseSymbols throws "no symbols
\* provided": symbolListOpt is the array of the --symbol values, symbolsOpt the
\* --symbols value (Undefined when the option is not given).
parseSymbols(symbolsOpt, symbolListOpt) ==
  LET fromList == symbolListOpt
      fromOpt == IF Truthy(symbolsOpt)
                 THEN FilterNonEmpty(MapTrim(SplitComma(symbolsOpt.v, <<>>)))
                 ELSE <<>>
      out == fromList \o fromOpt
      lower == [k \in 1..Len(out) |-> ToLowerCase(out[k])]
  IN  FilterNonEmpty(Uniq(lower, {}))

\* ----------------------------------------------------------------- pages
\* What the quote page of a symbol may hold.  A page is built from a content:
\* for "last" and every field either the text of its element or Absent.
Absent == <<"absent">>

Elem(sym, code, text) == [id |-> ElementId(sym, code), text |-> text]

PageKeys == <<"last">> \o FieldNames

\* The elements of a page in document order; the "last" element carries the
\* id of candidate lastCode.
RECURSIVE PageFrom(_, _, _, _)
PageFrom(sym, lastCode, content, k) ==
  IF k > Len(PageKeys) THEN <<>>
  ELSE LET key == PageKeys[k]
           rest == PageFrom(sym, lastCode, content, k + 1)
       IN  IF content[key] = Absent THEN rest
           ELSE <<Elem(sym, IF key = "last" THEN lastCode ELSE FieldCode(key),
                       content[key])>> \o rest

FullContent ==
  [k \in FieldSet \cup {"last"} |->
     CASE k = "last" -> <<"1", "2">>
       [] k = "date" -> <<"1", "-", "2">>
       [] k = "time" -> <<"3", ":", "4">>
       [] k = "change" -> <<"+", "1">>
       [] k = "change_pct" -> <<"(", "+", "1", ".", "5", "%", ")">>
       [] k = "high" -> <<"1", "3">>
       [] k = "low" -> <<"1", "1">>
       [] k = "open" -> <<" ", "1", "2">>
       [] k = "prev" -> <<"1", ",", "1">>
       [] k = "volume" -> <<"1", "0", "k">>
       [] k = "turnover" -> <<"7", "m">>]

\* A complete page (last under c3|3) and one without the high element.
FullPage(sym) == PageFrom(sym, <<"c", "3", "|", "3">>, FullContent, 1)
NoHighPage(sym) ==
  PageFrom(sym, <<"c", "2", "|", "3">>, [FullContent EXCEPT !["high"] = Absent], 1)

\* The pages a run may be served.
Pages(sym) == {FullPage(sym), NoHighPage(sym)}

\* ------------------------------------------------------------- the run
VARIABLES
  argv,      \* the command line: --symbols, --symbol (list), --mode, --format,
             \* --concurrency (Undefined where the option is not given)
  phase,     \* main: "init", "running" (awaiting mapLimit), "done", "failed"
  mainError, \* the message main fails with, "" when none
  symbols,   \* the result of parseSymbols
  limit,     \* effectiveConcurrency, the limit handed to mapLimit
  i,         \* mapLimit's shared index counter
  out,       \* mapLimit's out array, Undefined where nothing is stored yet
  workers,   \* the number of workers mapLimit created
  returned,  \* the number of workers that have returned
  calls,     \* per index: where the worker that took the index is suspended
             \* ("waiting" before the index is taken, "stored" once out[idx] is
             \* written), and the pending outcome of the call it is in
  http,      \* per index: the state of the symbol's http attempt: "none",
             \* "pending", "valid" (a record the validator accepts), "failed"
             \* (fetchQuoteHtml threw, or the validator rejected the record)
  session,   \* per index: the state of the symbol's fetchQuoteViaPlaywright call
  results,   \* the array main gets back from mapLimit
  exitCode,  \* process.exitCode
  pdoc,      \* parser runs: the document handed to the parser and the page
  pq,        \* parser runs: the quote record built from pdoc, Null before
  praw,      \* parser runs: what page.evaluate returned for pdoc, Null before
  pverdict   \* parser runs: the record handed to validateParsedQuote and what
             \* it returned, Null before

runVars ==
  <<argv, phase, mainError, symbols, limit, i, out, workers, returned, calls,
    http, session, results, exitCode>>

parseVars == <<pdoc, pq, praw, pverdict>>

vars == <<runVars, parseVars>>

Min(a, b) == IF a < b THEN a ELSE b
Max(a, b) == IF a > b THEN a ELSE b

DigitChar(n) ==
  CASE n = 0 -> "0" [] n = 1 -> "1" [] n = 2 -> "2" [] n = 3 -> "3" [] n = 4 -> "4"
    [] n = 5 -> "5" [] n = 6 -> "6" [] n = 7 -> "7" [] n = 8 -> "8" [] n = 9 -> "9"

\* The values tried for --symbols and for one --symbol.
SymbolsOptValues == {Undefined, Str(<<" ", ",">>), Str(<<"a", ",", " ", "B">>)}
SymbolArgValues == {<<"A">>, <<" ">>}

RECURSIVE SeqsUpTo(_, _)
SeqsUpTo(S, n) ==
  IF n = 0 THEN {<<>>}
  ELSE LET shorter == SeqsUpTo(S, n - 1)
       IN  shorter \cup {Append(q, x) : q \in shorter, x \in S}

\* --concurrency: not given, or a number 0..MaxConcurrency.
ConcurrencyValues == {Undefined} \cup {Str(<<DigitChar(n)>>) : n \in 0..MaxConcurrency}

ModeValues == {"http", "playwright", "auto", "ftp"}
FormatValues == {"json", "xml"}

\* .option("--concurrency <n>", ..., (v) => Number(v), 1)
OptsConcurrency(a) ==
  IF a.concurrency = Undefined THEN Num(1, 0) ELSE JsNumber(a.concurrency.v)

\* Math.max(1, Number(opts.concurrency) || 4)
Concurrency(a) ==
  LET n == OptsConcurrency(a)
      orFour == IF n.t = "nan" \/ n.m = 0 THEN 4 ELSE n.m
  IN  Max(1, orFour)

\* mode === "playwright" ? 1 : concurrency
effectiveConcurrency(a) == IF a.mode = "playwright" THEN 1 ELSE Concurrency(a)

NoCall == [launch |-> "none", browser |-> "none", page |-> "none", finished |-> FALSE]

Init ==
  /\ argv \in [symbols : SymbolsOptValues,
               symbol : SeqsUpTo(SymbolArgValues, MaxSymbolArgs),
               mode : ModeValues,
               format : FormatValues,
               concurrency : ConcurrencyValues]
  /\ phase = "init"
  /\ mainError = ""
  /\ symbols = <<>>
  /\ limit = 0
  /\ i = 0
  /\ out = <<>>
  /\ workers = 0
  /\ returned = 0
  /\ calls = <<>>
  /\ http = <<>>
  /\ session = <<>>
  /\ results = <<>>
  /\ exitCode = 0
  /\ pdoc = <<>>
  /\ pq = Null
  /\ praw = Null
  /\ pverdict = Null

\* A catch that returns the fields of a quote beside the error.
FailureWithQuoteFields(symbol, message, mode) ==
  [symbol |-> symbol, last |-> Null,
   error |-> [message |-> message, mode |-> mode]]

\* The failure record the callback of main builds in its catch.
Failure(symbol, message, mode) ==
  [symbol |-> symbol, error |-> [message |-> message, mode |-> mode]]

IsFailure(r) == "error" \in DOMAIN r
IsQuote(r) == "last" \in DOMAIN r

\* A fetchOne that goes to the rendered fetcher in every mode.
FirstPcRendered(mode) == "launch"

\* Where fetchOne first suspends: in fetchQuoteHtml for http and auto, in
\* chromium.launch for playwright.
FirstPc(mode) == IF mode = "playwright" THEN "launch" ELSE "fetch"

\* A mapLimit that pushes results as they complete: the record goes to the
\* first free slot.
StoreInCompletionOrder(o, idx, r) ==
  LET free == {k \in DOMAIN o : o[k] = Undefined}
      first == CHOOSE k \in free : \A j \in free : k <= j
  IN  [o EXCEPT ![first] = r]

\* out[idx] = <the settled value of fn>
Store(o, idx, r) == [o EXCEPT ![idx] = r]

\* new Array(Math.min(limit, items.length)): the number of workers.
WorkerCount(lim, n) == Min(lim, n)

\* A parseSymbols without the check of the length.
NoSymbolsNever(syms) == FALSE

\* uniq.length === 0: parseSymbols throws "no symbols provided".
NoSymbols(syms) == Len(syms) = 0

\* main up to its first suspension: the options, parseSymbols, the checks of
\* mode and format, and mapLimit creating its workers, each of which runs to
\* its first await (idx = i++, then the callback, fetchOne and the first call
\* of the fetcher).
Main ==
  /\ phase = "init"
  /\ LET syms == parseSymbols(argv.symbols, argv.symbol)
         n == Len(syms)
         lim == effectiveConcurrency(argv)
         nw == WorkerCount(lim, n)
     IN  IF NoSymbols(syms) THEN
           /\ phase' = "failed"
           /\ mainError' = "no symbols provided (use --symbols or --symbol)"
           /\ UNCHANGED <<symbols, limit, i, out, workers, calls, http, session>>
         ELSE IF argv.mode \notin {"http", "playwright", "auto"} THEN
           /\ phase' = "failed"
           /\ mainError' = "invalid --mode"
           /\ symbols' = syms
           /\ UNCHANGED <<limit, i, out, workers, calls, http, session>>
         ELSE IF argv.format \notin {"json", "table", "both"} THEN
           /\ phase' = "failed"
           /\ mainError' = "invalid --format"
           /\ symbols' = syms
           /\ UNCHANGED <<limit, i, out, workers, calls, http, session>>
         ELSE
           /\ phase' = "running"
           /\ mainError' = ""
           /\ symbols' = syms
           /\ limit' = lim
           /\ out' = [k \in 0..(n - 1) |-> Undefined]
           /\ i' = nw
           /\ workers' = nw
           /\ calls' = [k \in 0..(n - 1) |->
                          [pc |-> IF k < nw THEN FirstPc(argv.mode) ELSE "waiting",
                           pending |-> Undefined]]
           /\ http' = [k \in 0..(n - 1) |->
                         IF k < nw /\ argv.mode # "playwright" THEN "pending" ELSE "none"]
           /\ session' = [k \in 0..(n - 1) |->
                            IF k < nw /\ argv.mode = "playwright"
                            THEN [NoCall EXCEPT !.launch = "pending"] ELSE NoCall]
  /\ UNCHANGED <<argv, returned, results, exitCode, parseVars>>

\* ------------------------------------------------------------- fetchOne
\* What fetchQuoteHtml and the calls of playwright may reject with.
FetchErrors == {"timeout", "http 500"}
LaunchError == "browserType.launch: failed"
NewPageError == "browser.newPage: failed"
GotoError == "page.goto: Timeout exceeded"
EvaluateError == "page.evaluate: failed"

MissingFields(mode) ==
  CASE mode = "http" -> "parsed quote missing required fields (http)"
    [] mode = "playwright" -> "parsed quote missing required fields (playwright)"
    [] OTHER -> "parsed quote missing required fields (auto)"

\* The worker that took idx is suspended at pc.
Suspended(idx, pc) ==
  /\ phase = "running"
  /\ idx \in DOMAIN calls
  /\ calls[idx].pc = pc

\* fn settles with record r: the worker waits for mapLimit's continuation.
Settle(idx, r) == [calls EXCEPT ![idx].pc = "settled", ![idx].pending = r]

\* fetchOne calls fetchQuoteViaPlaywright, which suspends in chromium.launch.
StartRendered(idx) ==
  /\ calls' = [calls EXCEPT ![idx].pc = "launch"]
  /\ session' = [session EXCEPT ![idx].launch = "pending"]

MapLimitUnchanged ==
  UNCHANGED <<argv, phase, mainError, symbols, limit, i, out, workers, returned,
              results, exitCode, parseVars>>

\* fetchQuoteHtml returns the text of the page; fetchOne parses and validates.
FetchResolves(idx) ==
  /\ Suspended(idx, "fetch")
  /\ LET symbol == symbols[idx + 1]
     IN  \E html \in Pages(ToLowerCase(symbol)) :
           LET q == parseQuoteHtml(html, symbol)
           IN  IF validateParsedQuote(q) THEN
                 /\ http' = [http EXCEPT ![idx] = "valid"]
                 /\ calls' = Settle(idx, q)
                 /\ UNCHANGED session
               ELSE IF argv.mode = "http" THEN
                 /\ http' = [http EXCEPT ![idx] = "failed"]
                 /\ calls' = Settle(idx, Failure(symbol, MissingFields("http"), argv.mode))
                 /\ UNCHANGED session
               ELSE
                 /\ http' = [http EXCEPT ![idx] = "failed"]
                 /\ StartRendered(idx)
  /\ MapLimitUnchanged

\* fetchQuoteHtml throws (the timeout aborts the request, or the status is
\* not ok).
FetchRejects(idx) ==
  /\ Suspended(idx, "fetch")
  /\ \E e \in FetchErrors :
       /\ http' = [http EXCEPT ![idx] = "failed"]
       /\ IF argv.mode = "http" THEN
            /\ calls' = Settle(idx, Failure(symbols[idx + 1], e, argv.mode))
            /\ UNCHANGED session
          ELSE StartRendered(idx)
  /\ MapLimitUnchanged

\* ---------------------------------------------- fetchQuoteViaPlaywright
\* chromium.launch resolves: the browser exists.
LaunchResolves(idx) ==
  /\ Suspended(idx, "launch")
  /\ session' = [session EXCEPT ![idx].launch = "ok", ![idx].browser = "open"]
  /\ calls' = [calls EXCEPT ![idx].pc = "newPage"]
  /\ UNCHANGED http
  /\ MapLimitUnchanged

\* chromium.launch rejects: fetchQuoteViaPlaywright throws, no browser exists.
LaunchRejects(idx) ==
  /\ Suspended(idx, "launch")
  /\ session' = [session EXCEPT ![idx].launch = "failed", ![idx].finished = TRUE]
  /\ calls' = Settle(idx, Failure(symbols[idx + 1], LaunchError, argv.mode))
  /\ UNCHANGED http
  /\ MapLimitUnchanged

\* browser.newPage resolves: the try block is entered.
NewPageResolves(idx) ==
  /\ Suspended(idx, "newPage")
  /\ session' = [session EXCEPT ![idx].page = "open"]
  /\ calls' = [calls EXCEPT ![idx].pc = "goto"]
  /\ UNCHANGED http
  /\ MapLimitUnchanged

\* browser.newPage rejects before the try block: the finally does not run.
NewPageRejects(idx) ==
  /\ Suspended(idx, "newPage")
  /\ session' = [session EXCEPT ![idx].finished = TRUE]
  /\ calls' = Settle(idx, Failure(symbols[idx + 1], NewPageError, argv.mode))
  /\ UNCHANGED http
  /\ MapLimitUnchanged

GotoResolves(idx) ==
  /\ Suspended(idx, "goto")
  /\ calls' = [calls EXCEPT ![idx].pc = "evaluate"]
  /\ UNCHANGED <<http, session>>
  /\ MapLimitUnchanged

\* page.goto rejects: the error is kept while the finally block runs.
GotoRejects(idx) ==
  /\ Suspended(idx, "goto")
  /\ calls' = [calls EXCEPT ![idx].pc = "closePage",
                            ![idx].pending = [throw |-> GotoError]]
  /\ UNCHANGED <<http, session>>
  /\ MapLimitUnchanged

\* page.evaluate resolves with the texts read from the DOM of the page.
EvaluateResolves(idx) ==
  /\ Suspended(idx, "evaluate")
  /\ LET sym == ToLowerCase(symbols[idx + 1])
     IN  \E dom \in Pages(sym) :
           calls' = [calls EXCEPT ![idx].pc = "closePage",
                                  ![idx].pending = [return |-> pageEvaluate(dom, sym)]]
  /\ UNCHANGED <<http, session>>
  /\ MapLimitUnchanged

EvaluateRejects(idx) ==
  /\ Suspended(idx, "evaluate")
  /\ calls' = [calls EXCEPT ![idx].pc = "closePage",
                            ![idx].pending = [throw |-> EvaluateError]]
  /\ UNCHANGED <<http, session>>
  /\ MapLimitUnchanged

\* await page.close().catch(() => {}): whether close resolves or rejects
\* (the rejection is caught), the page has been closed as far as the program
\* goes, and the finally block goes on to close the browser.
PageCloseSettles(idx) ==
  /\ Suspended(idx, "closePage")
  /\ \E ok \in BOOLEAN :
       /\ session' = [session EXCEPT ![idx].page = "closed"]
       /\ calls' = [calls EXCEPT ![idx].pc = "closeBrowser"]
  /\ UNCHANGED http
  /\ MapLimitUnchanged

\* A callback that names the acquisition that failed instead of the mode of
\* the run.
RenderedOutcomeNamingPlaywright(symbol, pending, mode) ==
  IF "throw" \in DOMAIN pending THEN Failure(symbol, pending.throw, "playwright")
  ELSE LET q == buildQuoteFromPlaywrightRaw(symbol, pending.return)
       IN  IF validateParsedQuote(q) THEN q
           ELSE Failure(symbol, MissingFields(mode), "playwright")

\* What fetchOne makes of the outcome of fetchQuoteViaPlaywright, and the
\* callback of main of that.
RenderedOutcome(symbol, pending, mode) ==
  IF "throw" \in DOMAIN pending THEN Failure(symbol, pending.throw, mode)
  ELSE LET q == buildQuoteFromPlaywrightRaw(symbol, pending.return)
       IN  IF validateParsedQuote(q) THEN q
           ELSE Failure(symbol, MissingFields(mode), mode)

\* await browser.close().catch(() => {}): fetchQuoteViaPlaywright returns the
\* data or throws the error of the try block; fetchOne builds and validates.
BrowserCloseSettles(idx) ==
  /\ Suspended(idx, "closeBrowser")
  /\ \E ok \in BOOLEAN :
       /\ session' = [session EXCEPT ![idx].browser = "closed", ![idx].finished = TRUE]
       /\ calls' = Settle(idx, RenderedOutcome(symbols[idx + 1], calls[idx].pending,
                                              argv.mode))
  /\ UNCHANGED http
  /\ MapLimitUnchanged

\* ------------------------------------------------------------- mapLimit
\* The worker resumes after await fn(...): out[idx] is stored, then the loop
\* takes the next index (i++) and either returns or calls fn for that symbol.
Resume(idx) ==
  /\ Suspended(idx, "settled")
  /\ out' = Store(out, idx, calls[idx].pending)
  /\ i' = i + 1
  /\ IF i >= Len(symbols) THEN
       /\ returned' = returned + 1
       /\ calls' = [calls EXCEPT ![idx].pc = "stored", ![idx].pending = Undefined]
       /\ UNCHANGED <<http, session>>
     ELSE
       /\ returned' = returned
       /\ calls' = [calls EXCEPT ![idx].pc = "stored", ![idx].pending = Undefined,
                                 ![i].pc = FirstPc(argv.mode)]
       /\ http' = IF argv.mode # "playwright" THEN [http EXCEPT ![i] = "pending"] ELSE http
       /\ session' = IF argv.mode = "playwright"
                     THEN [session EXCEPT ![i].launch = "pending"] ELSE session
  /\ UNCHANGED <<argv, phase, mainError, symbols, limit, workers, results, exitCode,
                 parseVars>>

\* await Promise.all(workers) resolves: main has the results and sets the
\* exit code.
Finish ==
  /\ phase = "running"
  /\ returned = workers
  /\ phase' = "done"
  /\ results' = out
  /\ exitCode' = IF \E k \in DOMAIN out : IsFailure(out[k]) THEN 2 ELSE 0
  /\ UNCHANGED <<argv, mainError, symbols, limit, i, out, workers, returned, calls,
                 http, session, parseVars>>

Next ==
  \/ Main
  \/ Finish
  \/ \E idx \in DOMAIN calls : FetchResolves(idx)
  \/ \E idx \in DOMAIN calls : FetchRejects(idx)
  \/ \E idx \in DOMAIN calls : LaunchResolves(idx)
  \/ \E idx \in DOMAIN calls : LaunchRejects(idx)
  \/ \E idx \in DOMAIN calls : NewPageResolves(idx)
  \/ \E idx \in DOMAIN calls : NewPageRejects(idx)
  \/ \E idx \in DOMAIN calls : GotoResolves(idx)
  \/ \E idx \in DOMAIN calls : GotoRejects(idx)
  \/ \E idx \in DOMAIN calls : EvaluateResolves(idx)
  \/ \E idx \in DOMAIN calls : EvaluateRejects(idx)
  \/ \E idx \in DOMAIN calls : PageCloseSettles(idx)
  \/ \E idx \in DOMAIN calls : BrowserCloseSettles(idx)
  \/ \E idx \in DOMAIN calls : Resume(idx)

Spec == Init /\ [][Next]_vars

\* ---------------------------------------------------------- parser runs
\* The parser, the function evaluated in the page and the validator applied
\* to one document at a time.
TestSymbol == <<"A">>

Subsets(S) == SUBSET S

\* A page with exactly the elements of keys (last under c2|3), each with the
\* text of the complete page.
PageWith(sym, keys) ==
  PageFrom(sym, <<"c", "2", "|", "3">>,
           [k \in FieldSet \cup {"last"} |-> IF k \in keys THEN FullContent[k] ELSE Absent],
           1)

\* The complete page with the text of one element replaced.
PageWithText(sym, key, text) ==
  PageFrom(sym, <<"c", "2", "|", "3">>, [FullContent EXCEPT ![key] = text], 1)

AllDigitChars == <<"0", "1", "2", "3", "4", "5", "6", "7", "8", "9">>

\* The candidate elements c<d>|3 for the digits of ds, in ascending order of
\* the digit; with twice, every element is there twice, the second time empty.
RECURSIVE CandidateElems(_, _, _, _)
CandidateElems(sym, ds, twice, k) ==
  IF k > Len(AllDigitChars) THEN <<>>
  ELSE LET d == AllDigitChars[k]
           rest == CandidateElems(sym, ds, twice, k + 1)
           code == <<"c", d, "|", "3">>
       IN  IF d \notin ds THEN rest
           ELSE IF twice THEN <<Elem(sym, code, <<"7", d>>), Elem(sym, code, <<" ">>)>> \o rest
           ELSE <<Elem(sym, code, <<"7", d>>)>> \o rest

\* A page whose candidate elements are those of ds, followed by the fields of
\* the complete page.
CandidatePage(sym, ds, twice) ==
  CandidateElems(sym, ds, twice, 1)
    \o PageFrom(sym, <<>>, [FullContent EXCEPT !["last"] = Absent], 1)

TestDocs ==
  LET sym == ToLowerCase(TestSymbol)
  IN  {PageWith(sym, keys) : keys \in Subsets(FieldSet \cup {"last"})}
        \cup {PageWithText(sym, key, text) :
                key \in FieldSet \cup {"last"}, text \in {<<>>, <<"x">>}}
        \cup {CandidatePage(sym, ds, twice) :
                ds \in Subsets({AllDigitChars[k] : k \in 1..Len(AllDigitChars)}),
                twice \in BOOLEAN}

IdleRun ==
  /\ argv = [symbols |-> Undefined, symbol |-> <<>>, mode |-> "http",
             format |-> "json", concurrency |-> Undefined]
  /\ phase = "idle"
  /\ mainError = ""
  /\ symbols = <<>>
  /\ limit = 0
  /\ i = 0
  /\ out = <<>>
  /\ workers = 0
  /\ returned = 0
  /\ calls = <<>>
  /\ http = <<>>
  /\ session = <<>>
  /\ results = <<>>
  /\ exitCode = 0

ParseInit ==
  /\ IdleRun
  /\ pdoc \in TestDocs
  /\ pq = Null
  /\ praw = Null
  /\ pverdict = Null

\* parseQuoteHtml(html, symbol)
ParseDocument ==
  /\ phase = "idle"
  /\ pq = Null
  /\ pq' = parseQuoteHtml(pdoc, TestSymbol)
  /\ UNCHANGED <<runVars, pdoc, praw, pverdict>>

\* page.evaluate(..., sym) on the page whose DOM holds the elements of pdoc
EvaluatePage ==
  /\ phase = "idle"
  /\ praw = Null
  /\ praw' = pageEvaluate(pdoc, ToLowerCase(TestSymbol))
  /\ UNCHANGED <<runVars, pdoc, pq, pverdict>>

\* buildQuoteFromPlaywrightRaw(symbol, raw)
BuildQuote ==
  /\ phase = "idle"
  /\ praw # Null
  /\ pq = Null
  /\ pq' = buildQuoteFromPlaywrightRaw(TestSymbol, praw)
  /\ UNCHANGED <<runVars, pdoc, praw, pverdict>>

\* validateParsedQuote(q)
ValidateQuote ==
  /\ phase = "idle"
  /\ pq # Null
  /\ pverdict = Null
  /\ pverdict' = [q |-> pq, ok |-> validateParsedQuote(pq)]
  /\ UNCHANGED <<runVars, pdoc, pq, praw>>

ParseNext ==
  \/ ParseDocument
  \/ EvaluatePage
  \/ BuildQuote
  \/ ValidateQuote

ParseSpec == ParseInit /\ [][ParseNext]_vars

\* ================================================================ claims
Indices == DOMAIN out

\* The symbols whose acquisition is in flight: the index is taken and out[idx]
\* is not stored yet.
InFlight == {k \in DOMAIN calls : calls[k].pc \notin {"waiting", "stored"}}

\* The browsers that have been launched and not closed.
OpenBrowsers == {k \in DOMAIN session : session[k].browser = "open"}

\* C1: when mapLimit finishes, and at every moment before, the record stored
\* at position k of the output is the outcome of the symbol at position k of
\* the input: it carries that symbol, and it is a quote only if that symbol's
\* own http attempt was valid or its own rendered session ran to its end; at
\* the end every position is filled.
C1_OutputIndexedByInput ==
  /\ \A k \in Indices :
       out[k] # Undefined =>
         /\ out[k].symbol = symbols[k + 1]
         /\ IsQuote(out[k]) =>
              \/ http[k] = "valid"
              \/ session[k].launch = "ok" /\ session[k].finished
         /\ http[k] = "valid" => IsQuote(out[k])
  /\ phase = "done" =>
       /\ DOMAIN results = 0..(Len(symbols) - 1)
       /\ \A k \in DOMAIN results :
            results[k] # Undefined /\ results[k].symbol = symbols[k + 1]

\* C1 witness: a finished run of three symbols on two or more workers, with
\* failures and quotes at alternating positions.
C1_Witness ==
  /\ phase = "done"
  /\ workers >= 2
  /\ Len(symbols) = 3
  /\ IsFailure(results[0])
  /\ IsQuote(results[1])
  /\ IsFailure(results[2])

\* C2: when the run completes the output holds exactly one record for every
\* input symbol, each either a quote record or a failure record {symbol,
\* error: {message, mode}} and never both; main fails only before anything is
\* dispatched, and while the run goes on a symbol not yet taken always has a
\* live worker to take it, whatever records the others got.
C2_OneRecordPerSymbol ==
  /\ phase = "done" =>
       /\ DOMAIN results = 0..(Len(symbols) - 1)
       /\ \A k \in DOMAIN results :
            /\ IsQuote(results[k]) # IsFailure(results[k])
            /\ IsFailure(results[k]) =>
                 /\ DOMAIN results[k] = {"symbol", "error"}
                 /\ DOMAIN results[k].error = {"message", "mode"}
       /\ \A n \in 1..Len(symbols) :
            Cardinality({k \in DOMAIN results : results[k].symbol = symbols[n]}) = 1
  /\ phase = "failed" => calls = <<>> /\ out = <<>>
  /\ phase = "running" =>
       /\ InFlight = {} => returned = workers
       /\ (\E k \in DOMAIN calls : calls[k].pc = "waiting") => InFlight # {}

\* C2 witness: a finished run whose first symbol failed and whose second
\* symbol, taken after that failure by the only worker, has its quote.
C2_Witness ==
  /\ phase = "done"
  /\ workers = 1
  /\ Len(symbols) >= 2
  /\ IsFailure(results[0])
  /\ IsQuote(results[1])

\* C3: the rendered fetcher is invoked for a symbol only if the mode is
\* playwright, or the mode is auto and that symbol's own http attempt threw
\* or was rejected by the validator; never in mode http, and never for a
\* symbol whose http attempt gave a valid record.
C3_RenderedOnlyOnOwnFailure ==
  \A k \in DOMAIN session :
    /\ session[k].launch # "none" =>
         \/ argv.mode = "playwright"
         \/ argv.mode = "auto" /\ http[k] = "failed"
    /\ argv.mode = "http" => session[k] = NoCall
    /\ http[k] = "valid" => session[k] = NoCall

\* C3 witness: a finished auto run in which the first symbol fell back to the
\* rendered fetcher and the second, valid over http, did not.
C3_Witness ==
  /\ phase = "done"
  /\ argv.mode = "auto"
  /\ Len(symbols) >= 2
  /\ http[0] = "failed" /\ session[0].launch = "ok"
  /\ http[1] = "valid" /\ session[1] = NoCall

\* The acquisition that produces an error message: the document fetcher and
\* the validation of its record are the http path, everything else is thrown
\* by or after the rendered fetcher.
ProducedBy(message) ==
  IF message \in FetchErrors \cup {MissingFields("http")} THEN "http" ELSE "playwright"

\* C4 as stated: the error.mode of every failure record names the acquisition
\* that produced the error (playwright for the error of the fallback in auto).
C4_ModeNamesAcquisition ==
  \A k \in Indices :
    IsFailure(out[k]) => out[k].error.mode = ProducedBy(out[k].error.message)

\* C4 amended: the error.mode of every failure record is the mode of the run
\* (http, playwright or auto); in auto the reported error is always the error
\* of the rendered fallback, and error.mode is then "auto".
C4_ModeIsRunMode ==
  \A k \in Indices :
    IsFailure(out[k]) =>
      /\ out[k].error.mode = argv.mode
      /\ argv.mode = "auto" =>
           /\ ProducedBy(out[k].error.message) = "playwright"
           /\ http[k] = "failed"
           /\ session[k].finished

\* C4 witness: an auto run in which a symbol's http attempt failed, its
\* rendered fallback failed in the navigation, and the failure is stored.
C4_Witness ==
  \E k \in Indices :
    /\ argv.mode = "auto"
    /\ IsFailure(out[k])
    /\ http[k] = "failed"
    /\ out[k].error.message = GotoError
    /\ out[k].error.mode = "auto"

\* The browsers of the calls of fetchQuoteViaPlaywright that are still
\* running: launched, not closed, the call not finished.  (A browser left open
\* by a call that has finished is launched and not closed as well; it is not
\* counted here.)
LiveBrowsers == {k \in OpenBrowsers : ~session[k].finished}

\* C5 as stated: concurrent browser sessions never occur, at most one browser
\* is launched and not yet closed at any moment of any run.  Stated for the
\* browsers of running calls alone, which the claim covers.
C5_AtMostOneBrowser == Cardinality(LiveBrowsers) <= 1

\* The limit the command line configures: the number given, 1 when
\* --concurrency is not given.
ConfiguredLimit == OptsConcurrency(argv).m

\* C6 as stated: in modes http and auto the number of symbols in flight is at
\* most max(1, configured limit), and at most 1 when no limit is configured.
C6_InFlightWithinConfigured ==
  (phase = "running" /\ argv.mode \in {"http", "auto"}) =>
    /\ Cardinality(InFlight) <= Max(1, ConfiguredLimit)
    /\ argv.concurrency = Undefined => Cardinality(InFlight) <= 1

\* C7 as stated: when a call of fetchQuoteViaPlaywright that launched its
\* browser has finished, the browser is closed, and so is the page if there
\* was one.
C7_SessionTornDown ==
  \A k \in DOMAIN session :
    (session[k].launch = "ok" /\ session[k].finished) =>
      /\ session[k].browser = "closed"
      /\ session[k].page \in {"none", "closed"}

RequiredSet ==
  {"last", "date", "time", "change", "change_pct", "high", "low", "open", "prev"}

\* C9: validateParsedQuote returns true if and only if every one of last,
\* date, time, change, change_pct, high, low, open, prev is non-null, whatever
\* volume and turnover are.
C9_ValidIffRequiredPresent ==
  pverdict # Null =>
    (pverdict.ok <=> \A f \in RequiredSet : pverdict.q[f] # Null)

\* C9 witness: a record missing only high was found invalid.
C9_Witness ==
  /\ pverdict # Null
  /\ pverdict.ok = FALSE
  /\ pverdict.q.high = Null
  /\ \A f \in (RequiredSet \cup {"volume", "turnover"}) \ {"high"} : pverdict.q[f] # Null

\* The candidates of last in the order of their priority.
PriorityOrder == <<"2", "0", "3", "1", "4", "5", "6", "7", "8", "9">>

CandidateIdOf(n) ==
  ElementId(ToLowerCase(TestSymbol), <<"c", PriorityOrder[n], "|", "3">>)

\* The ranks of the candidates that have an element in the document.
PresentRanks(doc) ==
  {n \in 1..Len(PriorityOrder) : \E k \in 1..Len(doc) : doc[k].id = CandidateIdOf(n)}

FirstPresent(doc) ==
  CHOOSE n \in PresentRanks(doc) : \A m \in PresentRanks(doc) : n <= m

\* C10: the raw text of last is the extraction of the first candidate, in
\* the order c2|3, c0|3, c3|3, c1|3, c4|3 ... c9|3, that has an element (an
\* empty element counts), it is null only when no candidate has one, and
\* the function evaluated in the page chooses the same candidate.
C10_FirstPresentCandidateWins ==
  /\ (pq # Null /\ "last_id" \in DOMAIN pq.raw) =>
       IF PresentRanks(pdoc) = {}
       THEN pq.raw.last = Null /\ pq.raw.last_id = Null
       ELSE /\ pq.raw.last_id = Str(CandidateIdOf(FirstPresent(pdoc)))
            /\ pq.raw.last = extractTextById(pdoc, CandidateIdOf(FirstPresent(pdoc)))
            /\ pq.raw.last # Null
  /\ praw # Null =>
       IF PresentRanks(pdoc) = {}
       THEN praw.last = Null /\ praw.last_id = Null
       ELSE praw.last_id = Str(CandidateIdOf(FirstPresent(pdoc))) /\ praw.last # Null
  /\ (pq # Null /\ "last_id" \in DOMAIN pq.raw /\ praw # Null) =>
       pq.raw.last_id = praw.last_id

\* C10 witness: a document without c2|3 whose c0|3 is there twice, the last
\* time empty, and which has c3|3 and c1|3 too: both paths chose c0|3, and the
\* parser's raw text of last is the empty text.
C10_Witness ==
  /\ pq # Null /\ "last_id" \in DOMAIN pq.raw /\ praw # Null
  /\ PresentRanks(pdoc) = {2, 3, 4}
  /\ pq.raw.last_id = Str(CandidateIdOf(2))
  /\ pq.raw.last = Str(<<>>)
  /\ praw.last_id = Str(CandidateIdOf(2))

\* C11: in every mode, every record mapLimit holds or main receives that is not
\* a failure record has non-null last, date, time, change, change_pct, high,
\* low, open and prev; a record the validator rejects is never stored as a
\* success.
C11_SuccessesAreValid ==
  /\ \A k \in DOMAIN out :
       (out[k] # Undefined /\ ~IsFailure(out[k])) =>
         \A f \in RequiredSet : out[k][f] # Null
  /\ \A k \in DOMAIN results :
       ~IsFailure(results[k]) =>
         /\ IsQuote(results[k])
         /\ \A f \in RequiredSet : results[k][f] # Null

\* C11 witness: a finished auto run of two symbols whose http attempts both
\* failed; the rendered record of the first passed the validation and is a
\* success, the rendered record of the second lacked a required field and is
\* a failure.
C11_Witness ==
  /\ phase = "done"
  /\ argv.mode = "auto"
  /\ DOMAIN results = {0, 1}
  /\ http[0] = "failed" /\ http[1] = "failed"
  /\ IsQuote(results[0])
  /\ \A f \in RequiredSet : results[0][f] # Null
  /\ IsFailure(results[1])
  /\ results[1].error.message = MissingFields("auto")

====
